---- MODULE Spec2Model ----
(***************************************************************************)
(* Model of the Townsville logger entry point (lib/index.js, the           *)
(* TownsvilleLogger variant, src/lib/mapped-syslog.js lines 74-635): the   *)
(* module-level registry (logLevel, logLevels, appName, showName, showPid, *)
(* log, nrTransports), init/deinit/createLogger/end, the per-logger level  *)
(* check and prefixing, the transports' 'finish' events and the poll       *)
(* timers started by end(callback).                                        *)
(*                                                                         *)
(* JavaScript values that the code inspects with typeof, truthiness or     *)
(* string methods are records [t |-> <typeof>, v |-> <text>].  A variable  *)
(* that may hold undefined is a sequence of length <= 1: <<>> is           *)
(* undefined, <<x>> holds x.                                               *)
(***************************************************************************)
EXTENDS Integers, Sequences, FiniteSets, TLC

VARIABLES
  logLevel,      \* let logLevel: default numeric level
  logLevels,     \* let logLevels: own properties of the per-module level object
  appName,       \* let appName
  showName,      \* let showName
  showPid,       \* let showPid
  log,           \* let log: the winston logger, [id, transports]
  nrTransports,  \* let nrTransports
  pipelines,     \* by logger id: the stream state of its transports
  polls,         \* the setInterval timers started by end(callback)
  inst,          \* the caller's logger instance (result of createLogger)
  ret,           \* what the caller's last API call did
  installed      \* the argument of the init call that created log

registry == <<logLevel, logLevels, appName, showName, showPid, log, nrTransports>>
vars == <<logLevel, logLevels, appName, showName, showPid, log, nrTransports,
          pipelines, polls, inst, ret, installed>>

-----------------------------------------------------------------------------
(* Bounds of the model *)

MaxInits == 2
MaxPolls == 1

-----------------------------------------------------------------------------
(* Program constants *)

DEFAULT_LOGLEVEL == "info"
DEFAULT_LOGGER_NAME == "logger"
NOT_INITIALIZED == "Log system is not initialized"
NR_FATAL == 0
NR_ERROR == 10
NR_WARN == 20
NR_INFO == 30
NR_DEBUG == 40
NR_TRACE == 50
SN_NONE == 0
SN_SIMPLE == 1
SN_FULL == 2

Ranks == {NR_FATAL, NR_ERROR, NR_WARN, NR_INFO, NR_DEBUG, NR_TRACE}

-----------------------------------------------------------------------------
(* JavaScript values *)

Undefined == <<>>
Some(x) == <<x>>

JsUndefined == [t |-> "undefined", v |-> "undefined"]
JsStr(s) == [t |-> "string", v |-> s]
JsNum(s) == [t |-> "number", v |-> s]
JsBool(b) == [t |-> "boolean", v |-> IF b THEN "true" ELSE "false"]
JsObj(s) == [t |-> "object", v |-> s]

\* ToBoolean
Truthy(x) ==
  CASE x.t = "undefined" -> FALSE
    [] x.t = "boolean" -> x.v = "true"
    [] x.t = "string" -> x.v # ""
    [] x.t = "number" -> x.v \notin {"0", "NaN"}
    [] x.t = "object" -> x.v # "null"
    [] OTHER -> TRUE

\* String.prototype.toLowerCase on the strings the model uses
toLowerCase(s) ==
  CASE s = "Debug" -> "debug"
    [] s = "FULL" -> "full"
    [] s = "None" -> "none"
    [] OTHER -> s

\* JSON.stringify on the values the model uses
JSONstringify(x) ==
  CASE x.v = "{teun:1}" -> JsStr("{\"teun\":1}")
    [] x.v = "null" -> JsStr("null")
    [] OTHER -> JsStr("\"" \o x.v \o "\"")

\* process.pid, as util.format('%d') prints it
Pid == "4711"

\* Keys every plain object inherits from Object.prototype: `name in {}` is
\* true for them, and reading them yields a function, not a number.
ObjectPrototypeKeys == {"constructor"}

-----------------------------------------------------------------------------
(* Level codec *)

\* value.toLowerCase() is a TypeError when value is not a string
numLevelThrows(value) == value.t # "string"

numLevel(value) ==
  LET s == toLowerCase(value.v) IN
  CASE s = "fatal" -> NR_FATAL
    [] s = "error" -> NR_ERROR
    [] s = "warn" -> NR_WARN
    [] s = "info" -> NR_INFO
    [] s = "debug" -> NR_DEBUG
    [] s = "trace" -> NR_TRACE
    [] OTHER -> NR_TRACE

strLevel_SyslogNames(value) ==
  CASE value = NR_FATAL -> "crit"
    [] value = NR_ERROR -> "error"
    [] value = NR_WARN -> "warning"
    [] value = NR_INFO -> "info"
    [] OTHER -> "debug"

strLevel(value) ==
  CASE value = NR_FATAL -> "fatal"
    [] value = NR_ERROR -> "error"
    [] value = NR_WARN -> "warn"
    [] value = NR_INFO -> "info"
    [] value = NR_DEBUG -> "debug"
    [] value = NR_TRACE -> "trace"
    [] OTHER -> "trace"

-----------------------------------------------------------------------------
(* Settings objects handed to init *)

\* A settings object: each field is the JavaScript value found under that key
\* (JsUndefined when the key is absent); levels is Undefined or Some(sequence
\* of <<module name, value>> in Object.keys order); console and file are
\* Undefined or Some(the destination's own settings).
MkSettings(name, sn, sp, level, levels, console, file) ==
  [name |-> name, showName |-> sn, showPid |-> sp, level |-> level,
   levels |-> levels, console |-> console, file |-> file]

ConsoleCfg == [timestamp |-> JsBool(FALSE)]
FileCfg == [path |-> JsStr("/tmp/t.log"), timestamp |-> JsBool(FALSE)]

EmptySettings ==
  MkSettings(JsUndefined, JsUndefined, JsUndefined, JsUndefined,
             Undefined, Undefined, Undefined)

DEFAULT_SETTINGS_NoConsole ==
  MkSettings(JsStr(DEFAULT_LOGGER_NAME), JsBool(TRUE), JsBool(FALSE),
             JsStr(DEFAULT_LOGLEVEL), Undefined, Undefined, Undefined)

DEFAULT_SETTINGS ==
  MkSettings(JsStr(DEFAULT_LOGGER_NAME), JsBool(TRUE), JsBool(FALSE),
             JsStr(DEFAULT_LOGLEVEL), Undefined,
             Some([timestamp |-> JsObj("getUTCTimestamp")]), Undefined)

-----------------------------------------------------------------------------
(* Settings resolution *)

getShowName(value) ==
  IF value.t = "string"
  THEN LET s == toLowerCase(value.v) IN
       CASE s = "full" -> SN_FULL
         [] s \in {"none", "false"} -> SN_NONE
         [] OTHER -> SN_SIMPLE
  ELSE IF Truthy(value) THEN SN_SIMPLE ELSE SN_NONE

\* logLevels[entry] = value
Put(map, key, value) ==
  [k \in DOMAIN map \cup {key} |-> IF k = key THEN value ELSE map[k]]

\* Object.keys(settings).forEach: entries are stored one by one, and the
\* first value that is not a string ends the loop with a TypeError, keeping
\* what was stored before it.
RECURSIVE getLogLevels(_, _)
getLogLevels(entries, map) ==
  IF entries = <<>>
  THEN [levels |-> map, thrown |-> FALSE]
  ELSE LET e == Head(entries) IN
       IF numLevelThrows(e[2])
       THEN [levels |-> map, thrown |-> TRUE]
       ELSE getLogLevels(Tail(entries), Put(map, e[1], numLevel(e[2])))

\* The largest rank among the default level and the per-module levels
determineTransLevel(level, levels) ==
  LET all == {level} \cup {levels[k] : k \in DOMAIN levels}
      minLevel == CHOOSE m \in all : \A x \in all : x <= m
  IN strLevel(minLevel)

getConsoleTransport(settings, level) ==
  [kind |-> "console", level |-> level]

\* obj[key] of a JavaScript object: undefined when obj has no such key
Get(obj, key) == IF key \in DOMAIN obj THEN obj[key] ELSE JsUndefined

\* Of the options, tailable is kept: not set (Undefined) without a
\* rollingFile entry, else true when rollingFile.tailable is undefined and
\* settings.tailable otherwise
getFileTransport(settings, level) ==
  [kind |-> "file", level |-> level,
   tailable |-> IF "rollingFile" \in DOMAIN settings
                THEN Some(IF Get(settings.rollingFile, "tailable") = JsUndefined
                          THEN JsBool(TRUE)
                          ELSE Get(settings, "tailable"))
                ELSE Undefined]

\* What evaluateSettings computes when no log exists yet: the registry
\* fields it assigns before anything can throw, the levels it has stored
\* when it throws or finishes, and the transports it builds.
Evaluated(settings) ==
  LET lv == IF settings.levels # Undefined
            THEN getLogLevels(settings.levels[1], logLevels)
            ELSE [levels |-> logLevels, thrown |-> FALSE]
      levelThrown == ~lv.thrown /\ Truthy(settings.level)
                       /\ numLevelThrows(settings.level)
      thrown == lv.thrown \/ levelThrown
      level == IF ~thrown /\ Truthy(settings.level)
               THEN numLevel(settings.level) ELSE logLevel
      transLevel == determineTransLevel(level, lv.levels)
      transports ==
        (IF settings.console # Undefined
         THEN <<getConsoleTransport(settings.console[1], transLevel)>> ELSE <<>>)
        \o (IF settings.file # Undefined
            THEN <<getFileTransport(settings.file[1], transLevel)>> ELSE <<>>)
  IN [appName |-> IF Truthy(settings.name) THEN settings.name.v
                  ELSE DEFAULT_LOGGER_NAME,
      showName |-> getShowName(settings.showName),
      showPid |-> Truthy(settings.showPid),
      logLevels |-> lv.levels,
      logLevel |-> level,
      thrown |-> thrown,
      transports |-> transports]

-----------------------------------------------------------------------------
(* What the caller observes of an API call *)

\* op: the operation; error: the message of the exception it threw, "" when
\* it returned; val: the returned boolean, if any; rank, argsIn: the level
\* and arguments of a severity call; argsOut: the arguments object after the
\* call; sent: whether log.<level> was applied to it.
Ret(op) ==
  [op |-> op, error |-> "", val |-> Undefined, rank |-> Undefined,
   argsIn |-> <<>>, argsOut |-> <<>>, sent |-> FALSE]

Thrown(op, message) == [Ret(op) EXCEPT !.error = message]

-----------------------------------------------------------------------------
(* Winston loggers *)

\* The variable log holds the logger object: its id and its transports with
\* their options.  pipelines[id] is the stream side of logger id: how many
\* transports it has (n), whether log.end() was called on it (ended) and which
\* transports have emitted 'finish' since (finished).
\*
\* A logger that can emit no more events and is not the current log is
\* garbage: one that deinit dropped before it was ended (its transports never
\* finish), and one whose transports have all finished.  Its entry is
\* replaced by this one.
Collected == [n |-> 0, ended |-> TRUE, finished |-> {}]

AllFinished(pl) == pl.ended /\ pl.finished = 1..pl.n

\* pls with the garbage among the loggers other than `current` collected
Collect(pls, current) ==
  [id \in DOMAIN pls |->
     IF current # id /\ (~pls[id].ended \/ AllFinished(pls[id]))
     THEN Collected ELSE pls[id]]

LogId == IF log = Undefined THEN 0 ELSE log[1].id

-----------------------------------------------------------------------------
(* Registry operations *)

\* evaluateSettings past its `if (log) return`: the assignments up to the
\* first exception, or all of them and the new log
Install(arg, settings) ==
  LET e == Evaluated(settings) IN
  /\ e.thrown \/ Len(pipelines) < MaxInits
  /\ appName' = Some(e.appName)
  /\ showName' = Some(e.showName)
  /\ showPid' = Some(e.showPid)
  /\ logLevels' = e.logLevels
  /\ logLevel' = e.logLevel
  /\ IF e.thrown
     THEN /\ ret' = Thrown("init", "TypeError")
          /\ UNCHANGED <<log, nrTransports, pipelines, installed>>
     ELSE /\ nrTransports' = Len(e.transports)
          /\ pipelines' = Append(pipelines,
                            [n |-> Len(e.transports),
                             ended |-> FALSE, finished |-> {}])
          /\ log' = Some([id |-> Len(pipelines) + 1,
                          transports |-> e.transports])
          /\ installed' = Some(arg)
          /\ ret' = Ret("init")

evaluateSettings_NoGuard(arg, settings) == Install(arg, settings)

evaluateSettings(arg, settings) ==
  IF log # Undefined
  THEN /\ ret' = Ret("init")
       /\ UNCHANGED <<registry, pipelines, installed>>
  ELSE Install(arg, settings)

\* init(settings): arg is Undefined when the caller passes nothing
init(arg) ==
  /\ evaluateSettings(arg, IF arg = Undefined THEN DEFAULT_SETTINGS ELSE arg[1])
  /\ UNCHANGED <<polls, inst>>

deinit ==
  /\ log' = Undefined
  /\ showName' = Undefined
  /\ showPid' = Undefined
  /\ appName' = Undefined
  /\ logLevels' = <<>>
  /\ logLevel' = numLevel(JsStr(DEFAULT_LOGLEVEL))
  /\ pipelines' = Collect(pipelines, 0)
  /\ installed' = Undefined
  /\ ret' = Ret("deinit")
  /\ UNCHANGED <<nrTransports, polls, inst>>

-----------------------------------------------------------------------------
(* TownsvilleLogger *)

\* this._level >= level: a _level that is not a number (<<>>) compares false
JsGE(l, level) == l # Undefined /\ l[1] >= level

\* new TownsvilleLogger(name).  `name in logLevels` also holds for the keys a
\* plain object inherits, and logLevels[name] is then a function.
TownsvilleLogger(name) ==
  [name |-> name,
   level |-> IF name \in DOMAIN logLevels THEN Some(logLevels[name])
             ELSE IF name \in ObjectPrototypeKeys THEN Undefined
             ELSE Some(logLevel),
   pid |-> Pid]

createLogger(name) ==
  /\ inst' = Some(TownsvilleLogger(name))
  /\ ret' = Ret("createLogger")
  /\ UNCHANGED <<registry, pipelines, polls, installed>>

isToLog_NoInitCheck(lg, level) ==
  [thrown |-> FALSE, value |-> JsGE(lg.level, level)]

isToLog_Reversed(lg, level) ==
  IF log = Undefined
  THEN [thrown |-> TRUE, value |-> FALSE]
  ELSE [thrown |-> FALSE, value |-> lg.level # Undefined /\ lg.level[1] <= level]

isToLog_LiveLevel(lg, level) ==
  IF log = Undefined
  THEN [thrown |-> TRUE, value |-> FALSE]
  ELSE [thrown |-> FALSE,
        value |-> JsGE(TownsvilleLogger(lg.name).level, level)]

\* _isToLog(level): throws when there is no log
isToLog(lg, level) ==
  IF log = Undefined
  THEN [thrown |-> TRUE, value |-> FALSE]
  ELSE [thrown |-> FALSE, value |-> JsGE(lg.level, level)]

\* util.format('%s', x) for the first arguments the model uses
FormatS(x) == x.v

addToArgs_DashAlways(lg, args) ==
  IF showName = Some(SN_NONE) /\ (showPid = Undefined \/ ~showPid[1])
  THEN args
  ELSE LET pidPart == IF showPid # Undefined /\ showPid[1]
                      THEN "#" \o lg.pid ELSE ""
           named == showName # Undefined /\ showName[1] > SN_NONE
           namePart == IF ~named THEN ""
                       ELSE IF showName[1] = SN_FULL
                       THEN (IF appName = Undefined THEN "undefined"
                             ELSE appName[1]) \o "." \o lg.name
                       ELSE lg.name
           addOn == pidPart \o "-" \o namePart
       IN [i \in DOMAIN args |->
             IF i = 1 THEN JsStr("[" \o addOn \o "] " \o FormatS(args[1]))
             ELSE IF args[i].t = "object" THEN JSONstringify(args[i])
             ELSE args[i]]

\* _addToArgs(args): the arguments object after the call
addToArgs(lg, args) ==
  IF showName = Some(SN_NONE) /\ (showPid = Undefined \/ ~showPid[1])
  THEN args
  ELSE LET pidPart == IF showPid # Undefined /\ showPid[1]
                      THEN "#" \o lg.pid ELSE ""
           named == showName # Undefined /\ showName[1] > SN_NONE
           dash == IF named /\ showPid # Undefined /\ showPid[1]
                   THEN "-" ELSE ""
           namePart == IF ~named THEN ""
                       ELSE IF showName[1] = SN_FULL
                       THEN (IF appName = Undefined THEN "undefined"
                             ELSE appName[1]) \o "." \o lg.name
                       ELSE lg.name
           addOn == pidPart \o dash \o namePart
       IN [i \in DOMAIN args |->
             IF i = 1 THEN JsStr("[" \o addOn \o "] " \o FormatS(args[1]))
             ELSE IF args[i].t = "object" THEN JSONstringify(args[i])
             ELSE args[i]]

Method_NoCounter(level, args) ==
  /\ inst # Undefined
  /\ LET c == isToLog(inst[1], level)
         r == [Ret(strLevel(level)) EXCEPT
                 !.rank = Some(level), !.argsIn = args, !.argsOut = args]
     IN ret' = IF c.thrown THEN [r EXCEPT !.error = NOT_INITIALIZED]
               ELSE IF c.value
               THEN [r EXCEPT !.argsOut = addToArgs(inst[1], args),
                              !.sent = TRUE]
               ELSE r
  /\ UNCHANGED <<registry, pipelines, polls, inst, installed>>

\* fatal(), error(), warn(), info(), debug(), trace(): one body, six levels
Method(level, args) ==
  /\ inst # Undefined
  /\ LET c == isToLog(inst[1], level)
         r == [Ret(strLevel(level)) EXCEPT
                 !.rank = Some(level), !.argsIn = args, !.argsOut = args]
     IN ret' = IF c.thrown THEN [r EXCEPT !.error = NOT_INITIALIZED]
               ELSE IF c.value /\ nrTransports # 0
               THEN [r EXCEPT !.argsOut = addToArgs(inst[1], args),
                              !.sent = TRUE]
               ELSE r
  /\ UNCHANGED <<registry, pipelines, polls, inst, installed>>

fatal(args) == Method(NR_FATAL, args)
error(args) == Method(NR_ERROR, args)
warn(args) == Method(NR_WARN, args)
info(args) == Method(NR_INFO, args)
debug(args) == Method(NR_DEBUG, args)
trace(args) == Method(NR_TRACE, args)

\* isFatal(), ..., isTrace()
Predicate(level) ==
  /\ inst # Undefined
  /\ LET c == isToLog(inst[1], level)
         r == [Ret("is") EXCEPT !.rank = Some(level)]
     IN ret' = IF c.thrown THEN [r EXCEPT !.error = NOT_INITIALIZED]
               ELSE [r EXCEPT !.val = Some(c.value)]
  /\ UNCHANGED <<registry, pipelines, polls, inst, installed>>

isFatal == Predicate(NR_FATAL)
isError == Predicate(NR_ERROR)
isWarn == Predicate(NR_WARN)
isInfo == Predicate(NR_INFO)
isDebug == Predicate(NR_DEBUG)
isTrace == Predicate(NR_TRACE)

-----------------------------------------------------------------------------
(* Shutdown *)

\* end(callback): callback is Undefined or Some(a function, taken to
\* return when called).  The timer remembers which log, if any, this call
\* ended (pipe, 0 for none) and whether that log had not been ended before
\* (ready).
end(callback) ==
  /\ callback # Undefined => Len(polls) < MaxPolls
  /\ pipelines' = IF log # Undefined
                  THEN [pipelines EXCEPT ![log[1].id].ended = TRUE]
                  ELSE pipelines
  /\ polls' = IF callback # Undefined
              THEN Append(polls,
                     [pipe |-> LogId,
                      ready |-> log # Undefined /\ ~pipelines[LogId].ended,
                      calls |-> 0, active |-> TRUE])
              ELSE polls
  /\ ret' = Ret("end")
  /\ UNCHANGED <<registry, inst, installed>>

tick_NoClear(p) ==
  /\ polls[p].active
  /\ nrTransports <= 0
  /\ polls[p].calls < 2
  /\ polls' = [polls EXCEPT ![p].calls = @ + 1]
  /\ UNCHANGED <<registry, pipelines, inst, ret, installed>>

\* One run of the interval function of poll p, every 50 ms until cleared
tick(p) ==
  /\ polls[p].active
  /\ polls' = IF nrTransports <= 0
              THEN [polls EXCEPT ![p].calls = @ + 1, ![p].active = FALSE]
              ELSE polls
  /\ UNCHANGED <<registry, pipelines, inst, ret, installed>>

\* Transport i of logger id emits 'finish' (once, after the logger was
\* ended), which runs handleFinish.
handleFinish(id, i) ==
  /\ pipelines[id].ended
  /\ i \notin pipelines[id].finished
  /\ pipelines' = Collect([pipelines EXCEPT ![id].finished = @ \cup {i}], LogId)
  /\ nrTransports' = IF nrTransports > 0 THEN nrTransports - 1
                     ELSE nrTransports
  /\ UNCHANGED <<logLevel, logLevels, appName, showName, showPid, log,
                 polls, inst, ret, installed>>

-----------------------------------------------------------------------------
(* Library functions called on their own *)

\* numLevel(value) as a call of its own: ret holds the argument and the
\* rank returned, or the TypeError of value.toLowerCase
callNumLevel(value) ==
  /\ ret' = IF numLevelThrows(value)
            THEN [Thrown("numLevel", "TypeError") EXCEPT !.argsIn = <<value>>]
            ELSE [Ret("numLevel") EXCEPT !.argsIn = <<value>>,
                                         !.rank = Some(numLevel(value))]
  /\ UNCHANGED <<registry, pipelines, polls, inst, installed>>

\* strLevel(value) as a call of its own: ret holds the number and the name
\* returned
callStrLevel(value) ==
  /\ ret' = [Ret("strLevel") EXCEPT !.rank = Some(value),
                                    !.argsOut = <<JsStr(strLevel(value))>>]
  /\ UNCHANGED <<registry, pipelines, polls, inst, installed>>

\* getFileTransport(settings, level) as a call of its own: ret holds the
\* file settings and the options of the transport built
callGetFileTransport(settings, level) ==
  /\ ret' = [Ret("getFileTransport") EXCEPT
               !.argsIn = <<settings>>,
               !.val = Some(getFileTransport(settings, level))]
  /\ UNCHANGED <<registry, pipelines, polls, inst, installed>>

syslogLevel_Identity(level) == level

\* The switch of MappedSyslog.prototype.log
syslogLevel(level) ==
  CASE level = "fatal" -> "crit"
    [] level = "error" -> "error"
    [] level = "warn" -> "warning"
    [] level = "info" -> "info"
    [] OTHER -> "debug"

\* MappedSyslog.prototype.log(level, msg): argsOut is what
\* Syslog.prototype.log is called with
MappedSyslog_log(level, msg) ==
  /\ ret' = [Ret("MappedSyslog.log") EXCEPT
               !.argsIn = <<JsStr(level), JsStr(msg)>>,
               !.argsOut = <<JsStr(syslogLevel(level)), JsStr(msg)>>,
               !.sent = TRUE]
  /\ UNCHANGED <<registry, pipelines, polls, inst, installed>>

-----------------------------------------------------------------------------
(* Inputs *)

\* Level values handed to numLevel: the six names, other strings, and values
\* that are not strings
LevelValues ==
  {JsStr(strLevel(r)) : r \in Ranks}
    \cup {JsStr("Debug"), JsStr("verbose"), JsStr(""), JsNum("5"),
          JsUndefined, JsBool(TRUE), JsObj("null")}

\* Numbers handed to strLevel: the six ranks and numbers that are no rank
RankValues == Ranks \cup {-1, 5, 60}

\* rollingFile entries: tailable absent, true, false
RollingFileCfgs ==
  { [maxSize |-> JsNum("1000")],
    [maxSize |-> JsNum("1000"), tailable |-> JsBool(TRUE)],
    [maxSize |-> JsNum("1000"), tailable |-> JsBool(FALSE)] }

\* File settings: without and with a rollingFile entry, without and with a
\* tailable key of their own
FileCfgs ==
  {FileCfg}
    \cup {FileCfg @@ [rollingFile |-> rf] : rf \in RollingFileCfgs}
    \cup {FileCfg @@ [tailable |-> JsBool(TRUE), rollingFile |-> rf] :
            rf \in RollingFileCfgs}

\* Level names winston hands to a transport: the six custom levels and two
\* that are none of them
TransportLevels == {strLevel(r) : r \in Ranks} \cup {"silly", ""}

\* Message texts as the logger builds them
Messages ==
  {p \o t : p \in {"", "[aap] ", "[mylog.aap] ", "[#4711] ", "[#4711-aap] ",
                    "[#4711-mylog.aap] "},
            t \in {"aap 123 {\"teun\":1}", ""}}

Names == {"aap", "constructor"}

\* One call with a format string, a scalar and an object
ArgLists ==
  { <<JsStr("aap %d %s"), JsNum("123"), JsObj("{teun:1}")>> }

Callbacks == {Undefined, Some("callback")}

\* Prefix settings: every showName mode with every showPid
PrefixSettings ==
  { MkSettings(JsStr("mylog"), sn, sp, JsUndefined, Undefined,
               Undefined, Some(FileCfg)) :
      sn \in {JsStr("None"), JsBool(TRUE), JsStr("FULL")},
      sp \in {JsBool(TRUE), JsBool(FALSE)} }

\* Level settings: a default level and per-module levels, some of which
\* are not strings
LevelSettings ==
  { MkSettings(JsUndefined, JsUndefined, JsUndefined, c[1], Some(c[2]),
               Some(ConsoleCfg), Undefined) :
      c \in { <<JsUndefined, << <<"aap", JsStr("error")>> >> >>,
              <<JsStr("Debug"), << <<"aap", JsStr("error")>> >> >>,
              <<JsNum("5"), << <<"aap", JsStr("error")>> >> >>,
              <<JsStr("error"), <<>> >>,
              <<JsUndefined,
                << <<"aap", JsStr("trace")>>, <<"mymodule", JsNum("5")>> >> >> } }

\* Destination settings: none, console, file, both
SinkSettings ==
  { MkSettings(JsUndefined, JsUndefined, JsUndefined, JsUndefined, Undefined,
               c, f) :
      c \in {Undefined, Some(ConsoleCfg)}, f \in {Undefined, Some(FileCfg)} }

\* The `syslog` entry of a settings object, as the README gives it
SyslogCfg ==
  [host |-> JsStr("localhost"), port |-> JsNum("514"), protocol |-> JsStr("udp4")]

\* settings with the key `syslog` added
WithSyslog(settings) ==
  [k \in DOMAIN settings \cup {"syslog"} |->
     IF k = "syslog" THEN SyslogCfg ELSE settings[k]]

\* Destination settings that name a syslog destination: alone, and after a
\* console destination
SyslogSettings ==
  { WithSyslog(MkSettings(JsUndefined, JsUndefined, JsUndefined, JsUndefined,
                          Undefined, c, Undefined)) :
      c \in {Undefined, Some(ConsoleCfg)} }

InitArgs ==
  {Undefined}
    \cup {Some(s) : s \in PrefixSettings \cup LevelSettings \cup SinkSettings}

\* The arguments the logging side is explored with: all but those with more
\* than one destination
LoggingInitArgs ==
  {a \in InitArgs : a = Undefined \/ a[1].console = Undefined
                      \/ a[1].file = Undefined}

\* The arguments the shutdown side is explored with: the destinations vary
ShutdownInitArgs ==
  {Undefined} \cup {Some(s) : s \in SinkSettings \cup SyslogSettings}

-----------------------------------------------------------------------------
(* Specifications *)

Init ==
  /\ logLevel = numLevel(JsStr(DEFAULT_LOGLEVEL))
  /\ logLevels = <<>>
  /\ appName = Undefined
  /\ showName = Undefined
  /\ showPid = Undefined
  /\ log = Undefined
  /\ nrTransports = 0
  /\ pipelines = <<>>
  /\ polls = <<>>
  /\ inst = Undefined
  /\ ret = Ret("none")
  /\ installed = Undefined

\* The whole program: every operation, event and input
Next ==
  \/ \E a \in InitArgs : init(a)
  \/ deinit
  \/ \E n \in Names : createLogger(n)
  \/ \E a \in ArgLists : fatal(a)
  \/ \E a \in ArgLists : error(a)
  \/ \E a \in ArgLists : warn(a)
  \/ \E a \in ArgLists : info(a)
  \/ \E a \in ArgLists : debug(a)
  \/ \E a \in ArgLists : trace(a)
  \/ isFatal
  \/ isError
  \/ isWarn
  \/ isInfo
  \/ isDebug
  \/ isTrace
  \/ \E cb \in Callbacks : end(cb)
  \/ \E p \in DOMAIN polls : tick(p)
  \/ \E id \in DOMAIN pipelines :
       \E i \in 1..pipelines[id].n : handleFinish(id, i)

Spec == Init /\ [][Next]_vars

\* The logging side of the program.  The poll timers are left out: a timer
\* reads nrTransports and writes only polls, which no other operation reads,
\* and end() does to the log what end(callback) does.
LoggingNext ==
  \/ \E a \in LoggingInitArgs : init(a)
  \/ deinit
  \/ \E n \in Names : createLogger(n)
  \/ \E a \in ArgLists : fatal(a)
  \/ \E a \in ArgLists : error(a)
  \/ \E a \in ArgLists : warn(a)
  \/ \E a \in ArgLists : info(a)
  \/ \E a \in ArgLists : debug(a)
  \/ \E a \in ArgLists : trace(a)
  \/ isFatal
  \/ isError
  \/ isWarn
  \/ isInfo
  \/ isDebug
  \/ isTrace
  \/ end(Undefined)
  \/ \E id \in DOMAIN pipelines :
       \E i \in 1..pipelines[id].n : handleFinish(id, i)

LoggingSpec == Init /\ [][LoggingNext]_vars

\* The shutdown side of the program.  The logger operations are left out:
\* they write only inst and ret, which no registry operation, timer or
\* transport event reads.
ShutdownNext ==
  \/ \E a \in ShutdownInitArgs : init(a)
  \/ deinit
  \/ \E cb \in Callbacks : end(cb)
  \/ \E p \in DOMAIN polls : tick(p)
  \/ \E id \in DOMAIN pipelines :
       \E i \in 1..pipelines[id].n : handleFinish(id, i)

ShutdownSpec == Init /\ [][ShutdownNext]_vars

\* The event loop runs every armed interval and delivers every pending
\* 'finish' event; the caller's own calls (init, deinit, end) are not forced.
ShutdownFair ==
  /\ ShutdownSpec
  /\ \A p \in 1..MaxPolls : WF_vars(p \in DOMAIN polls /\ tick(p))
  /\ \A id \in 1..MaxInits : \A i \in 1..2 :
       WF_vars(id \in DOMAIN pipelines /\ i <= pipelines[id].n
                 /\ handleFinish(id, i))

\* The functions that can be called without a log: each step is one call
FunctionsNext ==
  \/ \E v \in LevelValues : callNumLevel(v)
  \/ \E v \in RankValues : callStrLevel(v)
  \/ \E f \in FileCfgs : \E r \in Ranks : callGetFileTransport(f, strLevel(r))
  \/ \E l \in TransportLevels : \E m \in Messages : MappedSyslog_log(l, m)

FunctionsSpec == Init /\ [][FunctionsNext]_vars

-----------------------------------------------------------------------------
(* Claims *)

MethodOps == {strLevel(r) : r \in Ranks}

\* ret is the result of a severity method / of a predicate.  Every operation
\* that writes log, inst or a display flag also writes ret, so while ret is a
\* call's result those are as they were when the call was made.
IsMethodRet == ret.op \in MethodOps
IsPredicateRet == ret.op = "is"

\* C1: every severity method and every predicate, on any logger, called when
\* there is no log (before the first successful init, after deinit) throws
\* 'Log system is not initialized', returns nothing and forwards nothing.
C1_NotInitializedThrows ==
  ((IsMethodRet \/ IsPredicateRet) /\ log = Undefined)
    => /\ ret.error = NOT_INITIALIZED
       /\ ret.val = Undefined
       /\ ~ret.sent
       /\ ret.argsOut = ret.argsIn

\* C1 witness: after an init and a deinit, a call was made and threw
C1_Witness ==
  /\ log = Undefined
  /\ Len(pipelines) > 0
  /\ IsMethodRet
  /\ ret.error = NOT_INITIALIZED

\* C2: init called while a log exists (also after end) returns silently and
\* leaves the levels, app name, display flags, log, transports and
\* nrTransports as they are.
C2_InitOnceOnly ==
  [][ (log # Undefined /\ \E a \in InitArgs : init(a))
        => /\ UNCHANGED <<registry, pipelines, installed>>
           /\ ret'.error = "" ]_vars

\* C2 witness: an init call made after the current log was ended
C2_Witness ==
  /\ log # Undefined
  /\ ret.op = "init"
  /\ pipelines[LogId].ended

\* The settings object the current log was created from
InstalledSettings ==
  IF installed[1] = Undefined THEN DEFAULT_SETTINGS ELSE installed[1][1]

\* The level the claims expect of a logger for module m under settings st:
\* the rank of st.levels[m] if m is a key of st.levels, else the rank of
\* st.level, info when st gives none
ExpectedLevel(m, st) ==
  LET entries == IF st.levels = Undefined THEN <<>> ELSE st.levels[1]
      hits == {i \in DOMAIN entries : entries[i][1] = m}
  IN IF hits # {}
     THEN numLevel(entries[CHOOSE i \in hits : TRUE][2])
     ELSE IF Truthy(st.level) THEN numLevel(st.level) ELSE NR_INFO

\* C3 as claimed: after init with default level D and per-module levels M, a
\* logger created for any module m answers the predicate of rank r with true
\* iff r <= M[m] when m is a key of M, iff r <= D otherwise.
C3_LevelsFollowSettings ==
  log # Undefined
    => \A m \in Names : \A r \in Ranks :
         isToLog(TownsvilleLogger(m), r).value
           = (r <= ExpectedLevel(m, InstalledSettings))

\* C4 as claimed, for module names no object inherits: whenever there was
\* no log, init({}) gives every new logger the info level: isFatal, isError,
\* isWarn, isInfo true, isDebug and isTrace false.
C4_EmptySettingsGiveInfo ==
  (log # Undefined /\ installed = Some(Some(EmptySettings)))
    => \A m \in Names \ ObjectPrototypeKeys : \A r \in Ranks :
         isToLog(TownsvilleLogger(m), r).value = (r <= NR_INFO)

\* The first argument the claim expects an accepted call to forward
ExpectedFirstArg(original, pid, moduleName) ==
  LET pidShown == showPid = Some(TRUE)
      mode == showName[1]
  IN IF mode = SN_NONE /\ ~pidShown
     THEN original
     ELSE "[" \o (IF pidShown THEN "#" \o pid ELSE "")
              \o (IF pidShown /\ mode # SN_NONE THEN "-" ELSE "")
              \o (CASE mode = SN_SIMPLE -> moduleName
                    [] mode = SN_FULL -> appName[1] \o "." \o moduleName
                    [] OTHER -> "")
              \o "] " \o original

\* C5: an accepted call forwards its first argument unchanged when neither
\* pid nor name is shown, and otherwise as '[' + addon + '] ' + original,
\* addon being '#<pid>' if the pid is shown, then '-' if both are shown, then
\* the module name (Simple) or appName.moduleName (Full).
C5_PrefixFormat ==
  (IsMethodRet /\ ret.sent)
    => ret.argsOut[1]
         = JsStr(ExpectedFirstArg(ret.argsIn[1].v, inst[1].pid, inst[1].name))

\* C5 witness: a call forwarded with pid and full name
C5_Witness ==
  /\ IsMethodRet
  /\ ret.sent
  /\ ret.argsIn[1] = JsStr("aap %d %s")
  /\ ret.argsOut[1] = JsStr("[#4711-mylog.aap] aap %d %s")

\* C6 as claimed: under every prefix configuration an accepted call
\* forwards each extra argument that is an object as its JSON text and each
\* scalar extra argument unchanged.
C6_ObjectsSerialized ==
  (IsMethodRet /\ ret.sent)
    => \A i \in DOMAIN ret.argsIn :
         i > 1 => ret.argsOut[i]
                    = IF ret.argsIn[i].t = "object"
                      THEN JSONstringify(ret.argsIn[i]) ELSE ret.argsIn[i]

\* C7: a severity method whose rank is above the logger's level, called
\* while a log exists, changes nothing: the arguments stay as passed,
\* nothing is forwarded, nothing is thrown and the registry is unchanged.
C7_RejectedCallIsNoOp ==
  [][ \A r \in Ranks : \A a \in ArgLists :
        (log # Undefined /\ inst # Undefined /\ ~JsGE(inst[1].level, r)
           /\ Method(r, a))
          => /\ ret'.error = ""
             /\ ~ret'.sent
             /\ ret'.argsOut = a
             /\ UNCHANGED <<registry, pipelines, polls, installed>> ]_vars

\* C7 witness: a call rejected by its level while transports are open
C7_Witness ==
  /\ log # Undefined
  /\ nrTransports > 0
  /\ IsMethodRet
  /\ ~JsGE(inst[1].level, ret.rank[1])
  /\ ~ret.sent
  /\ ret.error = ""

\* C8 as claimed: the callback of end(callback) is not called while a
\* transport of the log that call ended has yet to finish.
C8_CallbackAfterSinks ==
  \A p \in DOMAIN polls :
    (polls[p].calls > 0 /\ polls[p].pipe # 0)
      => AllFinished(pipelines[polls[p].pipe])

C10_CallbackEventually ==
  \A p \in 1..MaxPolls :
    [](  (p \in DOMAIN polls /\ polls[p].ready)
           => <>(p \in DOMAIN polls /\ polls[p].calls > 0) )

\* C11 as claimed: deinit, from any state, leaves the registry as a fresh
\* process has it: no log, appName, showName and showPid unset, no
\* per-module levels, default level info, nrTransports zero.
C11_DeinitRestoresInitial ==
  [][ deinit
        => /\ log' = Undefined
           /\ appName' = Undefined
           /\ showName' = Undefined
           /\ showPid' = Undefined
           /\ logLevels' = <<>>
           /\ logLevel' = NR_INFO
           /\ nrTransports' = 0 ]_vars

\* C12 as claimed: createLogger(name) succeeds in every state, changes no
\* registry state, and the logger's level is the per-module level stored for
\* name if there is one, else the current default level.
C12_CreateLoggerLevel ==
  [][ \A n \in Names :
        createLogger(n)
          => /\ UNCHANGED registry
             /\ ret'.error = ""
             /\ inst' # Undefined
             /\ inst'[1].level
                  = Some(IF n \in DOMAIN logLevels THEN logLevels[n]
                         ELSE logLevel) ]_vars

\* C13 as claimed: an init that throws installs nothing: appName, showName,
\* showPid, logLevel, logLevels, log and nrTransports are as before the call.
C13_FailedInitInstallsNothing ==
  [][ \A a \in InitArgs :
        (init(a) /\ ret'.error # "") => UNCHANGED registry ]_vars

\* The settings object an init argument stands for
SettingsOf(arg) == IF arg = Undefined THEN DEFAULT_SETTINGS ELSE arg[1]

\* The destinations a settings object names, in the order console, file,
\* remote
Destinations(st) ==
  (IF st.console # Undefined THEN <<"console">> ELSE <<>>)
    \o (IF st.file # Undefined THEN <<"file">> ELSE <<>>)
    \o (IF "syslog" \in DOMAIN st THEN <<"syslog">> ELSE <<>>)

\* The kinds of the transports of a winston logger, in order
Kinds(lg) == [i \in DOMAIN lg.transports |-> lg.transports[i].kind]

\* C14 as claimed: an init that creates the log builds one transport for
\* each destination in the settings (console, file, syslog) and no other,
\* in that order, and leaves nrTransports at the number of destinations.
C14_OneSinkPerDestination ==
  [][ \A a \in ShutdownInitArgs :
        (log = Undefined /\ init(a) /\ log' # Undefined)
          => /\ Kinds(log'[1]) = Destinations(SettingsOf(a))
             /\ nrTransports' = Len(Destinations(SettingsOf(a))) ]_vars

\* C15 as claimed, in its part that no accepted call is dropped: a call
\* whose rank the logger's level accepts, made while the log has a transport
\* and has not been ended, is handed to the log, with this call's level.
C15_AcceptedCallsForwarded ==
  [][ \A r \in Ranks : \A a \in ArgLists :
        (/\ log # Undefined
         /\ inst # Undefined
         /\ JsGE(inst[1].level, r)
         /\ pipelines[LogId].n > 0
         /\ ~pipelines[LogId].ended
         /\ Method(r, a))
          => (ret'.sent /\ ret'.op = strLevel(r)) ]_vars

\* C16: init called without settings creates a log with one transport, the
\* console transport, default level info and simple module-name prefixes
\* (without pid), also when an earlier init failed.
C16_InitWithoutSettings ==
  (log # Undefined /\ installed = Some(Undefined))
    => /\ Kinds(log[1]) = <<"console">>
       /\ pipelines[LogId].n = 1
       /\ logLevel = NR_INFO
       /\ showName = Some(SN_SIMPLE)
       /\ showPid = Some(FALSE)

\* C16 witness: a call on the log of init() went out with the simple prefix
C16_Witness ==
  /\ log # Undefined
  /\ installed = Some(Undefined)
  /\ IsMethodRet
  /\ ret.sent
  /\ ret.argsOut[1] = JsStr("[aap] aap %d %s")

\* The syslog level the claim gives for a logger level
ExpectedSyslogLevel(level) ==
  IF level = "fatal" THEN "crit"
  ELSE IF level = "error" THEN "error"
  ELSE IF level = "warn" THEN "warning"
  ELSE IF level = "info" THEN "info"
  ELSE "debug"

\* C17: the syslog transport delegates with fatal mapped to crit, error to
\* error, warn to warning, info to info, every other level to debug, and
\* with the message text as it received it.
C17_SyslogMapping ==
  ret.op = "MappedSyslog.log"
    => /\ ret.argsOut[1] = JsStr(ExpectedSyslogLevel(ret.argsIn[1].v))
       /\ ret.argsOut[2] = ret.argsIn[2]

\* C17 witness: a fatal message with pid and full name went out as crit
C17_Witness ==
  /\ ret.op = "MappedSyslog.log"
  /\ ret.argsIn[1] = JsStr("fatal")
  /\ ret.argsOut = <<JsStr("crit"), JsStr("[#4711-mylog.aap] aap 123 {\"teun\":1}")>>

\* The rank of the level a transport was built with
TransportRank(transport) == numLevel(JsStr(transport.level))

\* C18 as claimed: while a log exists, every rank that the caller's logger
\* accepts is also within the level of every transport of the log.
C18_LoggerWithinTransportLevel ==
  (log # Undefined /\ inst # Undefined)
    => \A i \in DOMAIN log[1].transports : \A r \in Ranks :
         JsGE(inst[1].level, r) => r <= TransportRank(log[1].transports[i])

\* The transport level the claim gives for settings st: the name of the
\* largest rank among the default level st resolves to and the values of
\* st.levels
ExpectedTransLevel(st) ==
  LET d == IF Truthy(st.level) THEN numLevel(st.level) ELSE NR_INFO
      entries == IF st.levels = Undefined THEN <<>> ELSE st.levels[1]
      all == {d} \cup {numLevel(entries[i][2]) : i \in DOMAIN entries}
  IN strLevel(CHOOSE m \in all : \A x \in all : x <= m)

\* C19 as claimed: every transport of the log has the level named after the
\* largest rank among the default level and the per-module levels of the
\* init call that created the log.
C19_TransportLevelIsMax ==
  log # Undefined
    => \A i \in DOMAIN log[1].transports :
         log[1].transports[i].level = ExpectedTransLevel(InstalledSettings)

\* The names numLevel recognizes, in lower case
LevelNames == {strLevel(r) : r \in Ranks}

\* C20 as claimed: numLevel never throws; it returns the rank of a
\* recognized name whatever its case, and trace (50) for every other string
\* and for a value that is not a string.
C20_NumLevelNeverThrows ==
  ret.op = "numLevel"
    => LET value == ret.argsIn[1]
           known == value.t = "string" /\ toLowerCase(value.v) \in LevelNames
       IN /\ ret.error = ""
          /\ ret.rank # Undefined
          /\ known => strLevel(ret.rank[1]) = toLowerCase(value.v)
          /\ ~known => ret.rank = Some(NR_TRACE)

\* C21: strLevel returns a name for every number, 'trace' for a number
\* that is none of the six ranks; numLevel of the name of a rank is that
\* rank; and the rank numLevel gives a level name survives the way through
\* strLevel and back.
C21_CodecRoundTrip ==
  /\ ret.op = "strLevel"
       => /\ ret.error = ""
          /\ ret.rank[1] \in Ranks
               => numLevel(ret.argsOut[1]) = ret.rank[1]
          /\ ret.rank[1] \notin Ranks => ret.argsOut = <<JsStr("trace")>>
  /\ (ret.op = "numLevel" /\ ret.error = "")
       => numLevel(JsStr(strLevel(ret.rank[1]))) = ret.rank[1]

\* C21 witness: strLevel was called with the rank of warn
C21_Witness ==
  /\ ret.op = "strLevel"
  /\ ret.rank = Some(NR_WARN)
  /\ ret.argsOut = <<JsStr("warn")>>

\* C22 as claimed: for file settings with a rollingFile entry the
\* transport's tailable option is true when rollingFile.tailable is not
\* given, and the given rollingFile.tailable (true or false) when it is.
C22_TailableFromRollingFile ==
  (ret.op = "getFileTransport" /\ "rollingFile" \in DOMAIN ret.argsIn[1])
    => LET rf == ret.argsIn[1].rollingFile
       IN ret.val[1].tailable
            = Some(IF "tailable" \in DOMAIN rf THEN rf.tailable
                   ELSE JsBool(TRUE))

\* C23 as claimed: nrTransports is never negative and, while a log exists,
\* is the number of that log's transports that have not emitted 'finish'.
C23_CounterIsUnfinishedSinks ==
  /\ nrTransports >= 0
  /\ log # Undefined
       => nrTransports
            = pipelines[LogId].n - Cardinality(pipelines[LogId].finished)

\* C24: a logger is changed by no operation but the createLogger that
\* replaces it, and whenever a predicate returns, it returns what the level
\* the logger was created with gives, whatever init, deinit and end did to
\* the registry in between.
C24_LevelFixedAtCreation ==
  [][ /\ (inst # Undefined /\ ~(\E n \in Names : createLogger(n)))
           => inst' = inst
      /\ \A r \in Ranks :
           (log # Undefined /\ Predicate(r))
             => ret'.val = Some(JsGE(inst[1].level, r)) ]_vars

\* C24 witness: a logger created before init, at level info, answered
\* isInfo with true under a log whose default level is error
C24_Witness ==
  /\ log # Undefined
  /\ logLevel = NR_ERROR
  /\ inst # Undefined
  /\ inst[1].name \notin DOMAIN logLevels
  /\ IsPredicateRet
  /\ ret.rank = Some(NR_INFO)
  /\ ret.val = Some(TRUE)

\* C25: with a log, a severity method hands its message to the log iff the
\* predicate of its rank is true and nrTransports is not zero; with
\* nrTransports zero it forwards nothing, leaves the arguments as passed and
\* throws nothing.
C25_ForwardsIffAcceptedAndCounter ==
  [][ \A r \in Ranks : \A a \in ArgLists :
        (log # Undefined /\ Method(r, a))
          => /\ ret'.sent <=> (isToLog(inst[1], r).value /\ nrTransports # 0)
             /\ nrTransports = 0
                  => (~ret'.sent /\ ret'.argsOut = a /\ ret'.error = "") ]_vars

\* C25 witness: a call the logger's level accepts was made on a log whose
\* transport has finished, and was not forwarded
C25_Witness ==
  /\ log # Undefined
  /\ pipelines[LogId].n > 0
  /\ nrTransports = 0
  /\ IsMethodRet
  /\ JsGE(inst[1].level, ret.rank[1])
  /\ ~ret.sent
  /\ ret.error = ""

\* C26 as claimed, in its part that the callback is called: the callback of
\* an end(callback) made while no log exists is eventually called.
C26_CallbackWithoutLog ==
  \A p \in 1..MaxPolls :
    []( (p \in DOMAIN polls /\ polls[p].pipe = 0)
          => <>(p \in DOMAIN polls /\ polls[p].calls > 0) )

====
